---- MODULE Spec2Model ----
(***************************************************************************)
(* Password-reset code workflow of FirebaseService                         *)
(* (elite-glam-backend/src/firebase/firebase.service.ts, lines 545-617):   *)
(* the in-memory map resetCodes, sendPasswordResetCode,                    *)
(* verifyPasswordResetCode and resetPassword, run by concurrent requests   *)
(* on the single-threaded event loop.  Every step below is the code that   *)
(* runs between two awaits.                                                *)
(***************************************************************************)
EXTENDS Integers, Sequences, FiniteSets, Bags, TLC

\* ---------------------------------------------------------------- bounds
NumProcs == 2          \* requests in flight at a time
MaxCalls == 3          \* requests received in a behaviour
MaxTicks == 3          \* clock advances in a behaviour

\* ------------------------------------------------------- program constants
CodeBase == 100000     \* Math.floor(100000 + ...)
CodeSpan == 900000     \* Math.random() * 900000
Second == 1000         \* milliseconds in a second
TTL == 10 * 60 * Second  \* 10 * 60 * 1000: 10 minutes

\* Math.random() is k / RandDen for 0 <= k < RandDen; RandDen divides
\* CodeSpan, so that random * 900000 is the integer k * (CodeSpan / RandDen)
RandDen == CodeSpan
RandSamples == {0, RandDen - 1}

Emails == {"a@x.com", "b@x.com"}
Registered == {"a@x.com"}
\* the empty string passed as an email, and every string a caller may pass
EmptyEmail == ""
AnyEmails == Emails \cup {EmptyEmail}
OldPassword == "OldPass0!"
WeakPassword == "123"
NewPasswords == {"NewPass1!", WeakPassword}

NoEntry == [code |-> << >>, expires |-> -1]
NoCode == << >>
NeverIssued == [n |-> 0, code |-> NoCode, at |-> 0, old |-> {}]

VARIABLES resetCodes, now, password, inflight, issued, usedGens, consumed, ticks, calls, last

vars == <<resetCodes, now, password, inflight, issued, usedGens, consumed, ticks, calls,
          last>>

\* resetCodes : the Map of line 546, email -> {code, expires} or NoEntry
\* now        : Date.now(), in milliseconds
\* password   : the identity platform's password of every registered email
\* inflight   : the bag of requests in flight, each at one of its awaits
\* last       : the response of the request that settled last
\* issued     : history, per email how many times sendPasswordResetCode ran
\*              (n), the code it stored last and when (code, at), and the
\*              codes it stored before (old)
\* usedGens   : history, per email the issuances whose code a resetPassword
\*              had verified when it overwrote the password
\* consumed   : history, per email the code of the resetPassword that
\*              completed since the last sendPasswordResetCode, if any
\* ticks, calls : history, the clock advances and requests so far

\* the number of the latest issuance for an email
Gen(email) == issued[email].n

\* ------------------------------------------------------------ pure helpers
RECURSIVE Digits(_)
\* Number.prototype.toString() of a non-negative integer, as its digits
Digits(n) == IF n < 10 THEN <<n>> ELSE Append(Digits(n \div 10), n % 10)

\* variant: the code drawn as Math.floor(Math.random() * 900000).toString()
GenerateCodeNoBase(k) == Digits(k * (CodeSpan \div RandDen))

\* Math.floor(100000 + Math.random() * 900000).toString(), random = k / RandDen
GenerateCode(k) == Digits(CodeBase + (k * (CodeSpan \div RandDen)))

\* variant: the window written as 10 * 1000
ExpiryOfTenSeconds(t) == t + (10 * Second)

\* new Date(Date.now() + 10 * 60 * 1000)
ExpiryOf(t) == t + TTL

\* variant: the comparison written as >=
IsExpiredAtOrAfter(t, expires) == t >= expires

\* new Date() > storedData.expires
IsExpired(t, expires) == t > expires

\* variant: set that keeps an entry the map already holds
MapSetIfAbsent(codes, email, entry) ==
    IF codes[email] # NoEntry THEN codes ELSE [codes EXCEPT ![email] = entry]

\* variant: set that keeps the expiry of an entry the map already holds
MapSetKeepExpiry(codes, email, entry) ==
    IF codes[email] # NoEntry
    THEN [codes EXCEPT ![email] = [entry EXCEPT !.expires = codes[email].expires]]
    ELSE [codes EXCEPT ![email] = entry]

\* Map.prototype.set on resetCodes
MapSet(codes, email, entry) == [codes EXCEPT ![email] = entry]

\* variant: delete that removes nothing
MapDeleteKeep(codes, email) == codes

\* variant: Map.prototype.clear in place of delete
MapClear(codes, email) == [e \in DOMAIN codes |-> NoEntry]

\* Map.prototype.delete on resetCodes
MapDelete(codes, email) == [codes EXCEPT ![email] = NoEntry]

\* Map.prototype.get on resetCodes found an entry
HasEntry(codes, email) == codes[email] # NoEntry

\* variant: verifyPasswordResetCode without the expiry test
VerifyRetNoExpiry(codes, email, code, t) ==
    IF ~HasEntry(codes, email) THEN FALSE
    ELSE codes[email].code = code

\* variant: verifyPasswordResetCode resolving to the stored code's truthiness
VerifyRetTruthy(codes, email, code, t) ==
    IF ~HasEntry(codes, email) THEN FALSE
    ELSE IF IsExpired(t, codes[email].expires) THEN FALSE
    ELSE codes[email].code # NoCode

\* variant: verifyPasswordResetCode that answers false for an email without
\* an account
VerifyRetForAccounts(codes, email, code, t) ==
    IF email \notin DOMAIN password THEN FALSE
    ELSE IF ~HasEntry(codes, email) THEN FALSE
    ELSE IF IsExpired(t, codes[email].expires) THEN FALSE
    ELSE codes[email].code = code

\* verifyPasswordResetCode: the value it resolves to
VerifyRet(codes, email, code, t) ==
    IF ~HasEntry(codes, email) THEN FALSE
    ELSE IF IsExpired(t, codes[email].expires) THEN FALSE
    ELSE codes[email].code = code

\* variant: verifyPasswordResetCode that removes the entry it matched
VerifyCodesConsume(codes, email, code, t) ==
    IF HasEntry(codes, email)
       /\ (IsExpired(t, codes[email].expires) \/ codes[email].code = code)
    THEN MapDelete(codes, email)
    ELSE codes

\* variant: verifyPasswordResetCode that leaves an expired entry in the map
VerifyCodesNoSweep(codes, email, code, t) == codes

\* variant: verifyPasswordResetCode that removes the entry on a wrong code
VerifyCodesBurnOnMiss(codes, email, code, t) ==
    IF HasEntry(codes, email)
       /\ (IsExpired(t, codes[email].expires) \/ codes[email].code # code)
    THEN MapDelete(codes, email)
    ELSE codes

\* verifyPasswordResetCode: the map it leaves behind
VerifyCodes(codes, email, code, t) ==
    IF HasEntry(codes, email) /\ IsExpired(t, codes[email].expires)
    THEN MapDelete(codes, email)
    ELSE codes

\* the codes a client may type: every code that can be generated
SuppliedCodes == {GenerateCode(k) : k \in RandSamples}

\* the record of a request in flight
Request(pc, op, email, code, newPassword, valGen) ==
    [pc |-> pc, op |-> op, email |-> email, code |-> code,
     newPassword |-> newPassword, valGen |-> valGen]

\* the requests in flight that are at some await
Pending == BagToSet(inflight)

\* the server takes another request
Free == BagCardinality(inflight) < NumProcs

\* the response a request settles with
Response(op, email, code, result) ==
    [op |-> op, email |-> email, code |-> code, result |-> result]

NoResponse == Response("none", "", NoCode, "none")

\* request r goes on to its next await
Advance(r, pc) ==
    inflight' = (inflight (-) SetToBag({r})) (+) SetToBag({[r EXCEPT !.pc = pc]})

\* request r settles with result
Settle(r, result) ==
    /\ inflight' = inflight (-) SetToBag({r})
    /\ last' = Response(r.op, r.email, r.code, result)

\* ------------------------------------------------------------------- Init
Init ==
    /\ resetCodes = [e \in AnyEmails |-> NoEntry]
    /\ now = 0
    /\ password = [e \in Registered |-> OldPassword]
    /\ inflight = EmptyBag
    /\ issued = [e \in AnyEmails |-> NeverIssued]
    /\ usedGens = [e \in AnyEmails |-> {}]
    /\ consumed = [e \in AnyEmails |-> NoCode]
    /\ ticks = 0
    /\ calls = 0
    /\ last = NoResponse

\* ------------------------------------------------------------------ clock
\* the instants at which the clock is read: the start, then one second
\* before the first window closes, then every second after that
ClockStep(n) == IF n = 0 THEN TTL - Second ELSE Second

\* variant: a timer that sweeps the expired entries out of the map
TickWithSweep ==
    /\ ticks < MaxTicks
    /\ now' = now + ClockStep(ticks)
    /\ ticks' = ticks + 1
    /\ resetCodes' = [e \in DOMAIN resetCodes |->
                        IF HasEntry(resetCodes, e)
                           /\ IsExpired(now', resetCodes[e].expires)
                        THEN NoEntry ELSE resetCodes[e]]
    /\ UNCHANGED <<password, inflight, issued, usedGens, consumed, calls, last>>

Tick ==
    /\ ticks < MaxTicks
    /\ now' = now + ClockStep(ticks)
    /\ ticks' = ticks + 1
    /\ UNCHANGED <<resetCodes, password, inflight, issued, usedGens, consumed, calls, last>>

\* -------------------------------------------------- sendPasswordResetCode
\* lines 548-556: generate, compute expiry, store; then await the mail
SendPasswordResetCode(email) ==
    /\ Free
    /\ calls < MaxCalls
    /\ \E k \in RandSamples :
         /\ LET code == GenerateCode(k)
                expires == ExpiryOf(now)
            IN /\ resetCodes' = MapSet(resetCodes, email,
                                       [code |-> code, expires |-> expires])
               /\ inflight' = inflight (+) SetToBag(
                     {Request("send_mail", "send", email, code, "", 0)})
         /\ issued' = [issued EXCEPT ![email] =
                          [n |-> @.n + 1, code |-> GenerateCode(k), at |-> now,
                           old |-> IF @.n = 0 THEN @.old ELSE @.old \cup {@.code}]]
         /\ consumed' = [consumed EXCEPT ![email] = NoCode]
    /\ calls' = calls + 1
    /\ UNCHANGED <<now, password, usedGens, ticks, last>>

\* lines 558-563: the mail was sent
SendMailOk(r) ==
    /\ r.pc = "send_mail"
    /\ Settle(r, "ok")
    /\ UNCHANGED <<resetCodes, now, password, issued, usedGens, consumed, ticks, calls>>

\* variant: the stored code taken back when the mail could not be sent
SendMailFailRollback(r) ==
    /\ r.pc = "send_mail"
    /\ Settle(r, "Failed to send password reset code")
    /\ resetCodes' = MapDelete(resetCodes, r.email)
    /\ UNCHANGED <<now, password, issued, usedGens, consumed, ticks, calls>>

\* lines 564-567: import or delivery threw
SendMailFail(r) ==
    /\ r.pc = "send_mail"
    /\ Settle(r, "Failed to send password reset code")
    /\ UNCHANGED <<resetCodes, now, password, issued, usedGens, consumed, ticks, calls>>

\* ------------------------------------------------ verifyPasswordResetCode
\* lines 570-588, called on its own: no await inside, one step
VerifyPasswordResetCode(email, code) ==
    /\ Free
    /\ calls < MaxCalls
    /\ resetCodes' = VerifyCodes(resetCodes, email, code, now)
    /\ last' = Response("verify", email, code,
                        IF VerifyRet(resetCodes, email, code, now)
                        THEN "true" ELSE "false")
    /\ calls' = calls + 1
    /\ UNCHANGED <<inflight, now, password, issued, usedGens, consumed, ticks>>

\* lines 593-596: the error resetPassword throws when verifyPasswordResetCode
\* resolved to false
ResetRefusal(codes, email, code, t) ==
    IF VerifyRet(codes, email, code, t) THEN "none"
    ELSE "Invalid or expired verification code"

\* lines 600-602: the error resetPassword throws when getUserByEmail gave null
UserNotFound == "User not found"

\* ------------------------------------------------------------ resetPassword
\* lines 590-596: the call runs verifyPasswordResetCode synchronously
ResetPassword(email, code, newPassword) ==
    /\ Free
    /\ calls < MaxCalls
    /\ LET isValidCode == VerifyRet(resetCodes, email, code, now)
         IN /\ resetCodes' = VerifyCodes(resetCodes, email, code, now)
            /\ IF isValidCode
               THEN /\ inflight' = inflight (+) SetToBag(
                          {Request("get_user", "reset", email, code,
                                   newPassword, Gen(email))})
                    /\ last' = last
               ELSE /\ inflight' = inflight
                    /\ last' = Response("reset", email, code,
                                        ResetRefusal(resetCodes, email, code, now))
    /\ calls' = calls + 1
    /\ UNCHANGED <<now, password, issued, usedGens, consumed, ticks>>

\* lines 598-602 with getUserByEmail (278-298): a user record came back
ResetGetUserFound(r) ==
    /\ r.pc = "get_user"
    /\ r.email \in DOMAIN password
    /\ Advance(r, "update_user")
    /\ UNCHANGED <<resetCodes, now, password, issued, usedGens, consumed, ticks, calls, last>>

\* variant: resetPassword without the test of lines 600-602
ResetGetUserNullProceeds(r) ==
    /\ r.pc = "get_user"
    /\ r.email \notin DOMAIN password
    /\ Advance(r, "update_user")
    /\ UNCHANGED <<resetCodes, now, password, issued, usedGens, consumed, ticks, calls, last>>

\* variant: the reset code cleaned up when no user was found
ResetGetUserNullCleanup(r) ==
    /\ r.pc = "get_user"
    /\ r.email \notin DOMAIN password
    /\ r.email # EmptyEmail
    /\ Settle(r, UserNotFound)
    /\ resetCodes' = MapDelete(resetCodes, r.email)
    /\ UNCHANGED <<now, password, issued, usedGens, consumed, ticks, calls>>

\* lines 600-602: getUserByEmail resolved to null (lines 286-288, 292-294);
\* for the empty string auth.getUserByEmail throws auth/invalid-email instead
ResetGetUserNull(r) ==
    /\ r.pc = "get_user"
    /\ r.email \notin DOMAIN password
    /\ r.email # EmptyEmail
    /\ Settle(r, UserNotFound)
    /\ UNCHANGED <<resetCodes, now, password, issued, usedGens, consumed, ticks, calls>>

\* lines 291-296, 613-616: getUserByEmail threw another error than
\* auth/user-not-found; the error is rethrown
ResetGetUserThrows(r) ==
    /\ r.pc = "get_user"
    /\ Settle(r, "auth/internal-error")
    /\ UNCHANGED <<resetCodes, now, password, issued, usedGens, consumed, ticks, calls>>

\* the identity platform's password policy: at least six characters
Acceptable(newPassword) == newPassword # WeakPassword

\* lines 605-607: auth.updateUser overwrote the password
ResetUpdateUserOk(r) ==
    /\ r.pc = "update_user"
    /\ Acceptable(r.newPassword)
    /\ password' = [password EXCEPT ![r.email] = r.newPassword]
    /\ usedGens' = [usedGens EXCEPT ![r.email] = @ \cup {r.valGen}]
    /\ Advance(r, "delete")
    /\ UNCHANGED <<resetCodes, now, issued, consumed, ticks, calls, last>>

\* variant: the reset code cleaned up when auth.updateUser threw
ResetUpdateUserFailCleanup(r) ==
    /\ r.pc = "update_user"
    /\ \E err \in {"auth/weak-password", "auth/internal-error"} :
         /\ (err = "auth/weak-password") => ~Acceptable(r.newPassword)
         /\ Settle(r, err)
    /\ resetCodes' = MapDelete(resetCodes, r.email)
    /\ UNCHANGED <<now, password, issued, usedGens, consumed, ticks, calls>>

\* lines 605-607, 613-616: auth.updateUser threw; the error is rethrown
ResetUpdateUserFail(r) ==
    /\ r.pc = "update_user"
    /\ \E err \in {"auth/weak-password", "auth/internal-error"} :
         /\ (err = "auth/weak-password") => ~Acceptable(r.newPassword)
         /\ Settle(r, err)
    /\ UNCHANGED <<resetCodes, now, password, issued, usedGens, consumed, ticks, calls>>

\* lines 609-612: clean up the reset code
ResetDelete(r) ==
    /\ r.pc = "delete"
    /\ resetCodes' = MapDelete(resetCodes, r.email)
    /\ consumed' = [consumed EXCEPT ![r.email] = r.code]
    /\ Settle(r, "ok")
    /\ UNCHANGED <<now, password, issued, usedGens, ticks, calls>>

\* the requests the server may receive, their email drawn from emails
Receive(emails) ==
    \E email \in emails :
        \/ SendPasswordResetCode(email)
        \/ \E code \in SuppliedCodes :
              \/ VerifyPasswordResetCode(email, code)
              \/ \E newPassword \in NewPasswords :
                    ResetPassword(email, code, newPassword)

\* an await of a request in flight returns
Resume ==
    \/ \E r \in Pending : SendMailOk(r)
    \/ \E r \in Pending : SendMailFail(r)
    \/ \E r \in Pending : ResetGetUserFound(r)
    \/ \E r \in Pending : ResetGetUserNull(r)
    \/ \E r \in Pending : ResetGetUserThrows(r)
    \/ \E r \in Pending : ResetUpdateUserOk(r)
    \/ \E r \in Pending : ResetUpdateUserFail(r)
    \/ \E r \in Pending : ResetDelete(r)

Next ==
    \/ Tick
    \/ Receive(Emails)
    \/ Resume

\* the same server, with callers that may also pass the empty string
NextAnyEmail ==
    \/ Tick
    \/ Receive(AnyEmails)
    \/ Resume

Spec == Init /\ [][Next]_vars

SpecAnyEmail == Init /\ [][NextAnyEmail]_vars

TypeOK ==
    /\ now \in Nat
    /\ ticks \in 0..MaxTicks
    /\ calls \in 0..MaxCalls
    /\ \A e \in Emails : Gen(e) \in 0..MaxCalls
    /\ BagCardinality(inflight) <= NumProcs
    /\ \A r \in Pending : r.pc \in {"send_mail", "get_user", "update_user", "delete"}

\* ================================================================= claims
\* steps of a behaviour, as the properties below recognise them

\* request r is in flight after this step and was not before, or left it
Added(r) == CopiesIn(r, inflight') > CopiesIn(r, inflight)
Removed(r) == CopiesIn(r, inflight') < CopiesIn(r, inflight)

\* this step is a verifyPasswordResetCode(email, code) request
VerifyStep(email, code) ==
    /\ calls' = calls + 1
    /\ inflight' = inflight
    /\ last'.op = "verify" /\ last'.email = email /\ last'.code = code

\* this step is a resetPassword(email, code, _) request that the code check refused
ResetRefusedStep(email, code) ==
    /\ calls' = calls + 1
    /\ inflight' = inflight
    /\ last'.op = "reset" /\ last'.email = email /\ last'.code = code

\* this step is a resetPassword(email, code, _) request that passed the code check
ResetAcceptedStep(email, code) ==
    \E r \in BagToSet(inflight') :
        /\ Added(r)
        /\ r.pc = "get_user" /\ r.email = email /\ r.code = code

\* this step is request r's auth.updateUser overwriting the password
OverwriteStep(r) ==
    r.pc = "update_user" /\ Removed(r) /\ Added([r EXCEPT !.pc = "delete"])

\* this step is request r's auth.updateUser throwing
UpdateThrewStep(r) ==
    r.pc = "update_user" /\ Removed(r) /\ ~Added([r EXCEPT !.pc = "delete"])

\* the latest issuance for an email
LastIssued(email) == issued[email]

\* C1: once a resetPassword for an email has completed with a code, every
\* later verifyPasswordResetCode with that code answers false and every later
\* resetPassword with that code is refused and leaves the passwords alone,
\* until sendPasswordResetCode runs again for the email.
C1_SingleConsumption ==
    [][\A e \in Emails : \A c \in SuppliedCodes :
         consumed[e] = c =>
           /\ VerifyStep(e, c) => last'.result = "false"
           /\ ~ResetAcceptedStep(e, c)
           /\ ResetRefusedStep(e, c) => password' = password]_vars

C1_Witness ==
    \E e \in Emails :
        /\ consumed[e] # NoCode
        /\ password[e] # OldPassword
        /\ last = Response("verify", e, consumed[e], "false")

\* C2: the password is overwritten at most once per issued code: an
\* overwrite never comes from a resetPassword that verified an issuance
\* which another resetPassword has already used to overwrite the password.
C2_AtMostOneOverwritePerCode ==
    [][\A r \in Pending :
         OverwriteStep(r) => r.valGen \notin usedGens[r.email]]_vars

\* C3, as claimed: after a second sendPasswordResetCode for an email,
\* verifyPasswordResetCode with the code of an earlier issuance answers false.
C3_ReissueInvalidates ==
    \A e \in Emails : \A code1 \in issued[e].old :
        ~VerifyRet(resetCodes, e, code1, now)

\* C3, amended: after a second sendPasswordResetCode for an email,
\* verifyPasswordResetCode with the code of an earlier issuance answers false
\* whenever that code differs from the code of the latest issuance.
C3_ReissueInvalidatesOtherCode ==
    \A e \in Emails : \A code1 \in issued[e].old :
        code1 # LastIssued(e).code => ~VerifyRet(resetCodes, e, code1, now)

C3_Witness ==
    \E e \in Emails :
        /\ Gen(e) = 2
        /\ HasEntry(resetCodes, e)
        /\ now < TTL
        /\ \E code1 \in issued[e].old :
              /\ code1 # LastIssued(e).code
              /\ last = Response("verify", e, code1, "false")

\* C4: once sendPasswordResetCode has stored a new code for an email, no
\* resetPassword that verified an earlier issuance overwrites the password.
C4_SupersededNeverOverwrites ==
    [][\A r \in Pending :
         OverwriteStep(r) => r.valGen = Gen(r.email)]_vars

\* C5, as claimed: the stored code is refused at every time before its
\* issue or at or after its expiry, the instant of expiry included.
C5_RefusedOutsideWindow ==
    \A e \in Emails :
        (HasEntry(resetCodes, e)
         /\ (now < LastIssued(e).at \/ now >= resetCodes[e].expires))
            => ~VerifyRet(resetCodes, e, resetCodes[e].code, now)

\* C5, amended: the stored code is refused at every time before its issue
\* or after its expiry; at the instant of expiry it is still accepted.
C5_RefusedAfterExpiry ==
    \A e \in Emails :
        HasEntry(resetCodes, e) =>
          /\ (now < LastIssued(e).at \/ now > resetCodes[e].expires)
                => ~VerifyRet(resetCodes, e, resetCodes[e].code, now)
          /\ now = resetCodes[e].expires
                => VerifyRet(resetCodes, e, resetCodes[e].code, now)

C5_Witness ==
    \E e \in Emails :
        /\ Gen(e) > 0
        /\ now > LastIssued(e).at + TTL
        /\ consumed[e] = NoCode
        /\ ~HasEntry(resetCodes, e)
        /\ last = Response("verify", e, LastIssued(e).code, "false")
\* C6: with no resetPassword completed since the latest issue at time T, the
\* issued code is accepted at T + 10 min - 1 s and refused at T + 10 min + 1 s.
C6_ExpiryBoundary ==
    \A e \in Emails :
        (Gen(e) > 0 /\ consumed[e] = NoCode) =>
          /\ now = LastIssued(e).at + TTL - Second
                => VerifyRet(resetCodes, e, LastIssued(e).code, now)
          /\ now = LastIssued(e).at + TTL + Second
                => ~VerifyRet(resetCodes, e, LastIssued(e).code, now)

C6_Witness ==
    \E e \in Emails :
        /\ Gen(e) > 0
        /\ now = LastIssued(e).at + TTL - Second
        /\ last = Response("verify", e, LastIssued(e).code, "true")

\* C7: verifyPasswordResetCode answers false for every code when
\* sendPasswordResetCode never ran for the email, and for every code, the
\* stored one included, when the entry of the email is past its expiry.
C7_FalseWithoutLiveEntry ==
    \A e \in Emails : \A c \in SuppliedCodes :
        /\ Gen(e) = 0 => ~VerifyRet(resetCodes, e, c, now)
        /\ (HasEntry(resetCodes, e) /\ now > resetCodes[e].expires)
              => ~VerifyRet(resetCodes, e, c, now)

C7_Witness ==
    \E e \in Emails : \E c \in SuppliedCodes :
        /\ Gen(e) = 0
        /\ last = Response("verify", e, c, "false")

\* C8: a verifyPasswordResetCode with the stored code of an entry that is
\* not past its expiry answers true and leaves the map as it was.
C8_VerifyDoesNotConsume ==
    [][\A e \in Emails :
         (HasEntry(resetCodes, e) /\ now <= resetCodes[e].expires
          /\ VerifyStep(e, resetCodes[e].code))
            => (last'.result = "true" /\ resetCodes' = resetCodes)]_vars

C8_Witness ==
    \E e \in Emails :
        /\ HasEntry(resetCodes, e)
        /\ now <= resetCodes[e].expires
        /\ calls = 3
        /\ last = Response("verify", e, resetCodes[e].code, "true")

\* C9: a resetPassword whose code has no entry, an expired entry or another
\* code is refused at once, and one for an email without account fails
\* straight from the lookup; neither reaches auth.updateUser and both leave
\* every password as it was.
C9_FailureLeavesPassword ==
    [][/\ \A e \in Emails : \A c \in SuppliedCodes :
            ~(HasEntry(resetCodes, e) /\ now <= resetCodes[e].expires
              /\ resetCodes[e].code = c)
               => /\ ~ResetAcceptedStep(e, c)
                  /\ ResetRefusedStep(e, c) => password' = password
       /\ \A r \in Pending :
            (r.pc = "get_user" /\ r.email \notin DOMAIN password /\ Removed(r))
               => /\ \A q \in BagToSet(inflight') : ~Added(q)
                  /\ last'.op = "reset" /\ last'.email = r.email
                  /\ last'.result \in {"User not found", "auth/internal-error"}
                  /\ password' = password
       /\ \A r \in BagToSet(inflight') :
            r.pc = "update_user" => r.email \in DOMAIN password
      ]_vars

C9_Witness ==
    \E e \in Emails : \E c \in SuppliedCodes :
        /\ e \notin DOMAIN password
        /\ last = Response("reset", e, c, "User not found")

\* C10: when auth.updateUser rejects the new password, resetPassword fails
\* and the map and the passwords stay as they were, so the entry is still
\* there for a retry with the same code.
C10_RejectedUpdateKeepsEntry ==
    [][\A r \in Pending :
         UpdateThrewStep(r)
            => /\ last'.op = "reset" /\ last'.email = r.email
               /\ last'.result \in {"auth/weak-password", "auth/internal-error"}
               /\ resetCodes' = resetCodes
               /\ password' = password]_vars

C10_Witness ==
    \E e \in Emails :
        /\ HasEntry(resetCodes, e)
        /\ now <= resetCodes[e].expires
        /\ last = Response("reset", e, resetCodes[e].code, "auth/weak-password")
\* this step is request r's mail delivery failing
DeliveryFailedStep(r) ==
    /\ r.pc = "send_mail" /\ Removed(r)
    /\ last' = Response("send", r.email, r.code,
                        "Failed to send password reset code")

\* C11: when the mail cannot be delivered, sendPasswordResetCode fails with
\* a delivery error and leaves the map as it was, so the code it stored is
\* accepted afterwards exactly when it was accepted before.
C11_DeliveryFailureKeepsEntry ==
    [][\A r \in Pending :
         DeliveryFailedStep(r)
            => /\ resetCodes' = resetCodes
               /\ VerifyRet(resetCodes', r.email, r.code, now')
                    = VerifyRet(resetCodes, r.email, r.code, now)]_vars

C11_Witness ==
    \E e \in Emails :
        /\ last = Response("send", e, LastIssued(e).code,
                           "Failed to send password reset code")
        /\ HasEntry(resetCodes, e)
        /\ resetCodes[e].code = last.code
        /\ VerifyRet(resetCodes, e, last.code, now)

\* the codes verifyPasswordResetCode accepts for an email in this state
Accepted(email) ==
    {c \in SuppliedCodes : VerifyRet(resetCodes, email, c, now)}

\* C12: per email the map holds at most one entry that counts: at most one
\* code is accepted for the email, and it is the code of the latest
\* sendPasswordResetCode, within that issuance's window.
C12_AtMostOneLiveEntry ==
    \A e \in Emails :
        /\ Cardinality(Accepted(e)) <= 1
        /\ \A c \in Accepted(e) :
              /\ Gen(e) > 0
              /\ c = LastIssued(e).code
              /\ now <= LastIssued(e).at + TTL

C12_Witness ==
    \E e \in Emails :
        /\ Gen(e) = 2
        /\ \E code1 \in issued[e].old : code1 # LastIssued(e).code
        /\ Accepted(e) = {LastIssued(e).code}
        /\ last = Response("verify", e, LastIssued(e).code, "true")

\* this step is request r's sendPasswordResetCode resolving (lines 561-563)
IssueCompletedStep(r) ==
    /\ r.pc = "send_mail" /\ Removed(r)
    /\ last' = Response("send", r.email, r.code, "ok")

\* C13: when a sendPasswordResetCode for an email resolves, the map holds a
\* live entry for that email and the entry holds the code this call generated,
\* whatever other calls for the email ran meanwhile.
C13_IssueLeavesItsEntry ==
    [][\A r \in Pending :
         IssueCompletedStep(r)
            => /\ HasEntry(resetCodes', r.email)
               /\ resetCodes'[r.email].code = r.code
               /\ Accepted(r.email)' = {r.code}]_vars

\* C14: sendPasswordResetCode called with the empty string is rejected with
\* an InvalidRecipient error: it stores no entry under the empty string,
\* attempts no delivery, and responds InvalidRecipient.
C14_EmptyRecipientRejected ==
    /\ ~HasEntry(resetCodes, EmptyEmail)
    /\ \A r \in Pending : r.op = "send" => r.email # EmptyEmail
    /\ (last.op = "send" /\ last.email = EmptyEmail)
          => last.result = "InvalidRecipient"

\* why resetPassword(email, code, _) would be refused in this state, in the
\* terms of the claim: no entry, an expired entry, or a live entry holding
\* another code
FailureKind(email, code) ==
    IF ~HasEntry(resetCodes, email) THEN "CodeNotFound"
    ELSE IF IsExpired(now, resetCodes[email].expires) THEN "CodeExpired"
    ELSE IF resetCodes[email].code # code THEN "CodeMismatch"
    ELSE "none"

\* C15: a failing resetPassword tells the failure kinds apart: two calls
\* refused for different reasons (no entry, expired entry, wrong code) get
\* different errors, and none of these errors is the one for a missing account.
C15_FailureKindsDistinguishable ==
    \A e1 \in Emails, e2 \in Emails, c1 \in SuppliedCodes, c2 \in SuppliedCodes :
        /\ FailureKind(e1, c1) # "none"
              => ResetRefusal(resetCodes, e1, c1, now) \notin {"none", UserNotFound}
        /\ ( /\ FailureKind(e1, c1) # "none"
             /\ FailureKind(e2, c2) # "none"
             /\ FailureKind(e1, c1) # FailureKind(e2, c2) )
              => ResetRefusal(resetCodes, e1, c1, now)
                    # ResetRefusal(resetCodes, e2, c2, now)

\* this step is request r's sendPasswordResetCode storing its code
IssueStep(r) == r.pc = "send_mail" /\ Added(r)

\* an email with an account and one without, holding the same entry, get the
\* same answer and the same change of the map from verifyPasswordResetCode
SameAnswers ==
    \A e1 \in DOMAIN password, e2 \in Emails \ DOMAIN password :
        resetCodes[e1] = resetCodes[e2]
           => \A c \in SuppliedCodes :
                 /\ VerifyRet(resetCodes, e1, c, now)
                       = VerifyRet(resetCodes, e2, c, now)
                 /\ VerifyCodes(resetCodes, e1, c, now)[e1]
                       = VerifyCodes(resetCodes, e2, c, now)[e2]

\* C16: sendPasswordResetCode and verifyPasswordResetCode do not depend on
\* whether the email has an account: verifyPasswordResetCode gives an email
\* with an account and one without the same answers, sendPasswordResetCode
\* stores its code for either, and its response tells of delivery alone.
C16_NoAccountOracle ==
    [][/\ SameAnswers'
       /\ \A r \in BagToSet(inflight') :
             IssueStep(r)
                => resetCodes'[r.email] = [code |-> r.code, expires |-> now + TTL]
       /\ last'.op = "send"
             => last'.result \in {"ok", "Failed to send password reset code"}]_vars

C16_Witness ==
    \E e1 \in DOMAIN password, e2 \in Emails \ DOMAIN password :
        /\ HasEntry(resetCodes, e1)
        /\ resetCodes[e1] = resetCodes[e2]
        /\ last = Response("verify", e2, resetCodes[e2].code, "true")
        /\ VerifyRet(resetCodes, e1, resetCodes[e1].code, now)

\* C17: a verifyPasswordResetCode or a resetPassword that finds an expired
\* entry for its email removes the entry and fails: the first answers false,
\* the second is refused and does not go on to the account.
C17_LazyExpiry ==
    [][\A e \in Emails : \A c \in SuppliedCodes :
         (HasEntry(resetCodes, e) /\ now > resetCodes[e].expires)
            => /\ VerifyStep(e, c)
                  => /\ last'.result = "false"
                     /\ ~HasEntry(resetCodes', e)
               /\ ResetRefusedStep(e, c)
                  => /\ last'.result = "Invalid or expired verification code"
                     /\ ~HasEntry(resetCodes', e)
               /\ ~ResetAcceptedStep(e, c)]_vars

C17_Witness ==
    \E e \in Emails :
        /\ Gen(e) > 0
        /\ now > LastIssued(e).at + TTL
        /\ consumed[e] = NoCode
        /\ ~HasEntry(resetCodes, e)
        /\ last = Response("reset", e, LastIssued(e).code,
                           "Invalid or expired verification code")

\* this step belongs to a sendPasswordResetCode, verifyPasswordResetCode or
\* resetPassword call for email: the call storing its code, the code check
\* of a call, or a resetPassword cleaning up
StepFor(email) ==
    \/ \E r \in BagToSet(inflight') : IssueStep(r) /\ r.email = email
    \/ \E c \in SuppliedCodes : VerifyStep(email, c) \/ ResetRefusedStep(email, c)
    \/ \E r \in Pending : r.pc = "delete" /\ r.email = email /\ Removed(r)

\* C18: time alone never removes an entry: a step that advances the clock
\* leaves the map as it is, and the entry of an email, expired or not, changes
\* only in a step of a sendPasswordResetCode, verifyPasswordResetCode or
\* resetPassword call for that email.
C18_TimeAloneKeepsEntry ==
    [][/\ now' # now => resetCodes' = resetCodes
       /\ \A e \in Emails :
             resetCodes'[e] # resetCodes[e] => StepFor(e)]_vars

C18_Witness ==
    \E e \in Emails :
        /\ HasEntry(resetCodes, e)
        /\ now > resetCodes[e].expires
        /\ resetCodes[e].code = LastIssued(e).code

\* this step is any step of a call for email: a call arriving, or a call in
\* flight going on or settling
StepOf(email) ==
    \/ StepFor(email)
    \/ \E r \in Pending : r.email = email /\ Removed(r)
    \/ \E r \in BagToSet(inflight') : r.email = email /\ Added(r)

\* C19: a step of a call for one email leaves the entry of every other email
\* as it is, and with it what verifyPasswordResetCode answers for the other
\* email and any code.
C19_RecipientIsolation ==
    [][\A e \in Emails : \A other \in Emails \ {e} :
         StepOf(e)
            => /\ resetCodes'[other] = resetCodes[other]
               /\ \A c \in SuppliedCodes :
                     VerifyRet(resetCodes', other, c, now')
                        = VerifyRet(resetCodes, other, c, now)]_vars

C19_Witness ==
    \E e \in Emails : \E other \in Emails \ {e} :
        /\ last = Response("reset", e, LastIssued(e).code, "ok")
        /\ ~HasEntry(resetCodes, e)
        /\ HasEntry(resetCodes, other)
        /\ VerifyRet(resetCodes, other, LastIssued(other).code, now)

\* C20: every entry in the map expires exactly 10 minutes after the
\* sendPasswordResetCode that stored it, which is the latest one for its
\* email: a second sendPasswordResetCode starts the window again.
C20_WindowIsTenMinutes ==
    \A e \in Emails :
        HasEntry(resetCodes, e)
           => /\ Gen(e) > 0
              /\ resetCodes[e].expires = LastIssued(e).at + (10 * 60 * Second)

C20_Witness ==
    \E e \in Emails :
        /\ Gen(e) = 2
        /\ LastIssued(e).at > 0
        /\ HasEntry(resetCodes, e)
        /\ resetCodes[e].expires = LastIssued(e).at + TTL
        /\ now > LastIssued(e).at

RECURSIVE DecimalValue(_)
\* the integer a string of decimal digits denotes
DecimalValue(s) ==
    IF Len(s) = 0 THEN 0
    ELSE 10 * DecimalValue(SubSeq(s, 1, Len(s) - 1)) + s[Len(s)]

\* a string of exactly six decimal digits, the first not zero, denoting an
\* integer from 100000 to 999999
SixDigitCode(s) ==
    /\ Len(s) = 6
    /\ \A i \in 1..Len(s) : s[i] \in 0..9
    /\ s[1] # 0
    /\ DecimalValue(s) >= 100000
    /\ DecimalValue(s) <= 999999

\* C21: every code sendPasswordResetCode stores is the decimal string of an
\* integer from 100000 to 999999: the code of every entry in the map, and
\* the code every sendPasswordResetCode so far stored and passed to delivery.
C21_SixDigitCodes ==
    /\ \A e \in Emails :
          /\ HasEntry(resetCodes, e) => SixDigitCode(resetCodes[e].code)
          /\ Gen(e) > 0 => SixDigitCode(LastIssued(e).code)
          /\ \A c \in issued[e].old : SixDigitCode(c)
    /\ \A r \in Pending : r.op = "send" => SixDigitCode(r.code)

C21_Witness ==
    \E e \in Emails : \E other \in Emails \ {e} :
        /\ HasEntry(resetCodes, e) /\ HasEntry(resetCodes, other)
        /\ DecimalValue(resetCodes[e].code) = 100000
        /\ DecimalValue(resetCodes[other].code) = 999999

\* this step is request r's resetPassword cleaning up and resolving
ResetCompletedStep(r) == r.pc = "delete" /\ Removed(r)

\* C22: a resetPassword that completes removes only the entry it verified:
\* when a sendPasswordResetCode for the email stored a fresh code after the
\* resetPassword verified its own, the fresh code, accepted before the
\* resetPassword completes, is still accepted after.
C22_ResetKeepsFreshEntry ==
    [][\A r \in Pending :
         ( /\ ResetCompletedStep(r)
           /\ Gen(r.email) > r.valGen
           /\ VerifyRet(resetCodes, r.email, LastIssued(r.email).code, now) )
            => VerifyRet(resetCodes', r.email, LastIssued(r.email).code, now')]_vars

\* C23: a wrong code neither consumes nor locks a live entry: a
\* verifyPasswordResetCode with a code other than the stored one answers
\* false, a resetPassword with it is refused and leaves the passwords alone,
\* and either leaves the map as it is, so that verifyPasswordResetCode still
\* accepts the stored code.
C23_WrongGuessKeepsEntry ==
    [][\A e \in Emails : \A c \in SuppliedCodes :
         ( /\ HasEntry(resetCodes, e)
           /\ now <= resetCodes[e].expires
           /\ c # resetCodes[e].code )
            => /\ VerifyStep(e, c)
                  => /\ last'.result = "false"
                     /\ resetCodes' = resetCodes
                     /\ VerifyRet(resetCodes', e, resetCodes[e].code, now')
               /\ ResetRefusedStep(e, c)
                  => /\ last'.result = "Invalid or expired verification code"
                     /\ resetCodes' = resetCodes
                     /\ password' = password
                     /\ VerifyRet(resetCodes', e, resetCodes[e].code, now')
               /\ ~ResetAcceptedStep(e, c)]_vars

C23_Witness ==
    \E e \in Emails : \E c \in SuppliedCodes :
        /\ calls = MaxCalls
        /\ Gen(e) = 1
        /\ c # resetCodes[e].code
        /\ last = Response("reset", e, c, "Invalid or expired verification code")
        /\ VerifyRet(resetCodes, e, LastIssued(e).code, now)
        /\ \A other \in Emails \ {e} : Gen(other) = 0

\* this step is request r's resetPassword failing because getUserByEmail
\* found no user
UserNotFoundStep(r) ==
    /\ r.pc = "get_user" /\ Removed(r)
    /\ last' = Response("reset", r.email, r.code, UserNotFound)

\* C24: a resetPassword that passed the code check and fails because the
\* email has no user leaves the map as it is, and the code it verified is
\* still accepted afterwards, unless the entry expired or another
\* sendPasswordResetCode for the email ran since the check.
C24_UserNotFoundKeepsEntry ==
    [][\A r \in Pending :
         UserNotFoundStep(r)
            => /\ resetCodes' = resetCodes
               /\ ( /\ Gen(r.email) = r.valGen
                    /\ now <= LastIssued(r.email).at + TTL )
                     => /\ HasEntry(resetCodes', r.email)
                        /\ VerifyRet(resetCodes', r.email, r.code, now')]_vars

C24_Witness ==
    \E e \in Emails \ DOMAIN password :
        /\ last = Response("reset", e, LastIssued(e).code, UserNotFound)
        /\ Gen(e) = 1
        /\ HasEntry(resetCodes, e)
        /\ resetCodes[e] = [code |-> last.code, expires |-> LastIssued(e).at + TTL]
        /\ VerifyRet(resetCodes, e, last.code, now)

====
